---- MODULE Spec2Model ----
(***************************************************************************)
(* A model of pymol_ts_helper.py: the heuristic TS-header parser           *)
(* (_parse_ts_metadata and its helpers) and the process-wide metadata      *)
(* cache driven by parse_ts, load_model_with_ts, attach_ts and             *)
(* show_ts_info.                                                           *)
(*                                                                         *)
(* Text is modelled character by character: a Python str is a sequence of  *)
(* one-character strings, so that substring tests, strip/split, upper()    *)
(* and the regular expressions are computed as the code computes them.     *)
(***************************************************************************)
EXTENDS Integers, Sequences, FiniteSets, TLC

(***************************************************************************)
(* Python str primitives                                                   *)
(***************************************************************************)

\* Python's None where a str is expected; no text equals it, since every
\* element of a text is a single character.
NoneStr == <<"None">>

LowerSeq == <<"a", "b", "c", "d", "e", "f", "g", "h", "i", "j", "k", "l", "m",
              "n", "o", "p", "q", "r", "s", "t", "u", "v", "w", "x", "y", "z">>
UpperSeq == <<"A", "B", "C", "D", "E", "F", "G", "H", "I", "J", "K", "L", "M",
              "N", "O", "P", "Q", "R", "S", "T", "U", "V", "W", "X", "Y", "Z">>
DigitSeq == <<"0", "1", "2", "3", "4", "5", "6", "7", "8", "9">>

Lowers == {LowerSeq[i] : i \in DOMAIN LowerSeq}
Uppers == {UpperSeq[i] : i \in DOMAIN UpperSeq}
Digits == {DigitSeq[i] : i \in DOMAIN DigitSeq}
Alphas == Lowers \cup Uppers
Spaces == {" ", "\t", "\n", "\r"}

\* the value of a one-element set: TheOne({e : v \in {d}}) is e with v bound
\* to the value of d, computed once
TheOne(S) == CHOOSE x \in S : TRUE

SetMin(S) == CHOOSE x \in S : \A y \in S : x <= y
SetMax(S) == CHOOSE x \in S : \A y \in S : x >= y

ToUpper == [c \in Lowers |-> UpperSeq[CHOOSE i \in DOMAIN LowerSeq : LowerSeq[i] = c]]
ToLower == [c \in Uppers |-> LowerSeq[CHOOSE i \in DOMAIN UpperSeq : UpperSeq[i] = c]]
UpperChar(c) == IF c \in Lowers THEN ToUpper[c] ELSE c
LowerChar(c) == IF c \in Uppers THEN ToLower[c] ELSE c

\* s.upper() (up = TRUE) or s.lower() (up = FALSE)
MapChars(s, up) ==
  SubSeq([i \in 1..Len(s) |-> IF up THEN UpperChar(s[i]) ELSE LowerChar(s[i])],
         1, Len(s))
Upper(s) == MapChars(s, TRUE)
Lower(s) == MapChars(s, FALSE)

\* s[from:] in Python terms, with a 1-based first index
Drop(s, from) == SubSeq(s, from, Len(s))

\* first index q >= p whose character is outside class C (Len(s)+1 if none)
RunEnd(s, p, C) ==
  CHOOSE q \in p..(Len(s) + 1) :
    /\ q = Len(s) + 1 \/ s[q] \notin C
    /\ \A r \in p..(q - 1) : s[r] \in C
\* first index q >= p whose character is inside class C (Len(s)+1 if none)
RunEndNot(s, p, C) ==
  CHOOSE q \in p..(Len(s) + 1) :
    /\ q = Len(s) + 1 \/ s[q] \in C
    /\ \A r \in p..(q - 1) : s[r] \notin C

LStripSet(s, C) == Drop(s, RunEnd(s, 1, C))
RStripSet(s, C) ==
  IF \A i \in 1..Len(s) : s[i] \in C THEN <<>>
  ELSE SubSeq(s, 1, CHOOSE i \in 1..Len(s) :
                      /\ s[i] \notin C
                      /\ \A r \in (i + 1)..Len(s) : s[r] \in C)
Strip(s) == RStripSet(LStripSet(s, Spaces), Spaces)

StartsWith(s, p) == Len(p) <= Len(s) /\ SubSeq(s, 1, Len(p)) = p
EndsWith(s, p) == Len(p) <= Len(s) /\ SubSeq(s, Len(s) - Len(p) + 1, Len(s)) = p
\* sub in s
Contains(s, sub) ==
  \E i \in 0..(Len(s) - Len(sub)) :
    /\ sub = <<>> \/ s[i + 1] = sub[1]
    /\ SubSeq(s, i + 1, i + Len(sub)) = sub
HasChar(s, c) == \E i \in 1..Len(s) : s[i] = c
IndexOf(s, c) ==
  CHOOSE i \in 1..Len(s) : s[i] = c /\ \A r \in 1..(i - 1) : s[r] # c

\* s.split(None, 1): at most two parts, split at the first whitespace run
SplitFirstWord(s) ==
  LET a == RunEnd(s, 1, Spaces)
      b == RunEndNot(s, a, Spaces)
      c == RunEnd(s, b, Spaces)
  IN IF a > Len(s) THEN <<>>
     ELSE IF c > Len(s) THEN <<SubSeq(s, a, b - 1)>>
     ELSE <<SubSeq(s, a, b - 1), Drop(s, c)>>

RECURSIVE IntToStr(_)
\* str(n) for n >= 0
IntToStr(n) ==
  IF n < 10 THEN <<DigitSeq[n + 1]>>
  ELSE IntToStr(n \div 10) \o <<DigitSeq[(n % 10) + 1]>>

(***************************************************************************)
(* Regular expressions of the parser, matched as Python's re matches them  *)
(***************************************************************************)

\* [-+]?\d+\.\d+ anchored at p with maximal digit runs: the index just
\* past the match, or 0 when there is no match.
DecEnd(s, p) ==
  IF p > Len(s) THEN 0
  ELSE LET a == IF s[p] \in {"-", "+"} THEN p + 1 ELSE p
           b == IF a > Len(s) THEN a ELSE RunEnd(s, a, Digits)
           c == IF b + 1 > Len(s) THEN b + 1 ELSE RunEnd(s, b + 1, Digits)
       IN IF b > a /\ b <= Len(s) /\ s[b] = "." /\ c > b + 1 THEN c ELSE 0

\* re.search(r'[-+]?\d+\.\d+\s+[-+]?\d+\.\d+\s+[-+]?\d+\.\d+', s)
ThreeDecimals(s) ==
  \E p \in 1..Len(s) :
    \E e1 \in {DecEnd(s, p)} \ {0} :
      \E w1 \in {RunEnd(s, e1, Spaces)} \ {e1} :
        \E e2 \in {DecEnd(s, w1)} \ {0} :
          \E w2 \in {RunEnd(s, e2, Spaces)} \ {e2} :
            DecEnd(s, w2) # 0

RECURSIVE SkipTokens(_, _, _)
\* (\S+\s+){n} anchored at p: the index just past it, or 0
SkipTokens(s, p, n) ==
  IF n = 0 THEN p
  ELSE LET t == RunEndNot(s, p, Spaces)
           w == RunEnd(s, t, Spaces)
       IN IF t > p /\ w > t THEN SkipTokens(s, w, n - 1) ELSE 0

\* re.match(r'^\s*\d+\s+\S+\s+\S+\s+\S+\s+\S+\s+[-+]?\d+\.\d+', s)
ColumnarRecord(s) ==
  LET p0 == RunEnd(s, 1, Spaces)
      d  == RunEnd(s, p0, Digits)
      w  == RunEnd(s, d, Spaces)
      t  == IF d > p0 /\ w > d THEN SkipTokens(s, w, 4) ELSE 0
  IN t # 0 /\ DecEnd(s, t) # 0

\* re.match(r'^\s*\d+\s+[A-Z0-9]', s)
DigitsThenToken(s) ==
  LET p0 == RunEnd(s, 1, Spaces)
      d  == RunEnd(s, p0, Digits)
      w  == RunEnd(s, d, Spaces)
  IN d > p0 /\ w > d /\ w <= Len(s) /\ s[w] \in (Uppers \cup Digits)

\* re.match(r'^\s*([A-Za-z0-9_\- ]{1,60}?)\s*[:\-]\s*(.+)$', line): the
\* candidate (start, end) spans of group 1.  The leading \s* is greedy, so
\* the engine tries the latest start first; group 1 is lazy, so for a start
\* it tries the shortest span first.
GenericKeyMax == 60
GenericKeyClass == Alphas \cup Digits \cup {"_", "-", " "}
GenericSepAt(line, b) == RunEnd(line, b + 1, Spaces)
GenericSpans(line) ==
  LET w == RunEnd(line, 1, Spaces)
      \* the spans that start at a: inside the class, at most GenericKeyMax
      \* long, followed by \s*, a separator and at least one character
      from(a) ==
        LET e == RunEnd(line, a, GenericKeyClass)
            hi == IF e - 1 < a + GenericKeyMax - 1 THEN e - 1
                  ELSE a + GenericKeyMax - 1
        IN {<<a, b>> : b \in {x \in a..hi :
                                LET c == GenericSepAt(line, x)
                                IN c < Len(line) /\ line[c] \in {":", "-"}}}
  IN UNION {from(a) : a \in 1..(IF w > Len(line) THEN Len(line) ELSE w)}
\* the match object: matched = FALSE, or gk = group(1).strip() and
\* gv = group(2).strip()
GenericMatch(line) ==
  TheOne({
    IF spans = {} THEN [matched |-> FALSE, gk |-> <<>>, gv |-> <<>>]
    ELSE LET ab == CHOOSE ab \in spans :
                     \A x \in spans :
                       x[1] < ab[1] \/ (x[1] = ab[1] /\ x[2] >= ab[2])
         IN [matched |-> TRUE,
             gk |-> Strip(SubSeq(line, ab[1], ab[2])),
             gv |-> Strip(Drop(line, GenericSepAt(line, ab[2]) + 1))]
    : spans \in {GenericSpans(line)}})

\* re.search(r'[-+]?\d*\.\d+|\d+', s): the matched text, or NoneStr
\* the index just past a match of the pattern anchored at p, or 0
NumberEnd(s, p) ==
  LET a == IF s[p] \in {"-", "+"} THEN p + 1 ELSE p
      b == IF a > Len(s) THEN a ELSE RunEnd(s, a, Digits)
      c == IF b + 1 > Len(s) THEN b + 1 ELSE RunEnd(s, b + 1, Digits)
      e == RunEnd(s, p, Digits)
  IN IF b <= Len(s) /\ s[b] = "." /\ c > b + 1 THEN c
     ELSE IF e > p THEN e ELSE 0
FirstNumber(s) ==
  TheOne({
    IF hits = {} THEN NoneStr
    ELSE SubSeq(s, SetMin(hits), NumberEnd(s, SetMin(hits)) - 1)
    : hits \in {{p \in 1..Len(s) : NumberEnd(s, p) # 0}}})

RECURSIVE StoichTokens(_, _)
\* re.findall(r'([A-Za-z]+)\s*[:=]?\s*(\d+)', text) from index p on: the
\* sequence of <<letters, digits>> pairs of the non-overlapping matches
StoichTokens(text, p) ==
  IF p > Len(text) THEN <<>>
  ELSE IF text[p] \notin Alphas THEN StoichTokens(text, p + 1)
  ELSE LET a  == RunEnd(text, p, Alphas)
           w  == RunEnd(text, a, Spaces)
           c  == IF w <= Len(text) /\ text[w] \in {":", "="} THEN w + 1 ELSE w
           w2 == RunEnd(text, c, Spaces)
           d  == RunEnd(text, w2, Digits)
       IN IF d > w2
          THEN <<<<SubSeq(text, p, a - 1), SubSeq(text, w2, d - 1)>>>>
                 \o StoichTokens(text, d)
          ELSE StoichTokens(text, a)

RECURSIVE CompactFrom(_, _)
\* ''.join(re.findall(r'([A-Za-z]\d+)', text)): a letter and the digits
\* after it, for every letter that a digit follows, from index p on
CompactFrom(text, p) ==
  LET starts == {q \in p..(Len(text) - 1) :
                   text[q] \in Alphas /\ text[q + 1] \in Digits}
  IN IF starts = {} THEN <<>>
     ELSE LET q == SetMin(starts)
              d == RunEnd(text, q + 1, Digits)
          IN SubSeq(text, q, d - 1) \o CompactFrom(text, d)
CompactTokens(text, p) == CompactFrom(text, p)

(***************************************************************************)
(* The parser                                                              *)
(***************************************************************************)

_KEY_ALIASES ==
  <<
    [canon |-> "STOICH", name |-> <<"S", "T", "O", "I", "C", "H">>,
     aliases |-> <<<<"S", "T", "O", "I", "C", "H">>,
                   <<"S", "T", "O", "I", "C", "H", "I", "O", "M", "E", "T", "R">>,
                   <<"T", "O", "I", "C", "H">>,
                   <<"S", "T", "O", "I">>>>],
    [canon |-> "SCORE", name |-> <<"S", "C", "O", "R", "E">>,
     aliases |-> <<<<"S", "C", "O", "R", "E">>,
                   <<"G", "D", "T">>,
                   <<"T", "M", "_", "S", "C", "O", "R", "E">>,
                   <<"T", "M", "-", "S", "C", "O", "R", "E">>,
                   <<"T", "M">>,
                   <<"Q", "M", "E", "A", "N">>>>],
    [canon |-> "METHOD", name |-> <<"M", "E", "T", "H", "O", "D">>,
     aliases |-> <<<<"M", "E", "T", "H", "O", "D">>,
                   <<"E", "T", "H", "O", "D">>>>],
    [canon |-> "AUTHOR", name |-> <<"A", "U", "T", "H", "O", "R">>,
     aliases |-> <<<<"A", "U", "T", "H", "O", "R">>,
                   <<"U", "T", "H", "O", "R">>>>],
    [canon |-> "MODEL", name |-> <<"M", "O", "D", "E", "L">>,
     aliases |-> <<<<"M", "O", "D", "E", "L">>>>],
    [canon |-> "FORMAT", name |-> <<"F", "O", "R", "M", "A", "T">>,
     aliases |-> <<<<"F", "O", "R", "M", "A", "T">>,
                   <<"F", "R", "M", "A", "T">>,
                   <<"F", "R", "M">>>>],
    [canon |-> "TITLE", name |-> <<"T", "I", "T", "L", "E">>,
     aliases |-> <<<<"T", "I", "T", "L", "E">>,
                   <<"T", "I", "T", "L">>>>],
    [canon |-> "COMPND", name |-> <<"C", "O", "M", "P", "N", "D">>,
     aliases |-> <<<<"C", "O", "M", "P", "N", "D">>,
                   <<"C", "O", "M", "P", "O", "U", "N", "D">>,
                   <<"C", "O", "M", "P", "O", "N", "E", "N", "T">>>>]
  >>

CanonKeys == {_KEY_ALIASES[n].canon : n \in DOMAIN _KEY_ALIASES}
\* Python's None where a canonical key is expected
NoneKey == "None"

CoordPrefixes == {<<"A", "T", "O", "M">>, <<"H", "E", "T", "A", "T", "M">>,
                  <<"T", "E", "R">>, <<"E", "N", "D", "M", "D", "L">>}

_looks_like_coordinate_line(s) ==
  IF s = <<>> \/ Strip(s) = <<>> THEN FALSE
  ELSE IF ThreeDecimals(s) THEN TRUE
  ELSE LET head == Upper(Strip(s))
       IN IF \E pre \in CoordPrefixes : StartsWith(head, pre) THEN TRUE
          ELSE ColumnarRecord(s)

CandidatePrefixLen == 20
_identify_canonical_key(line_upper, left_token_upper) ==
  LET byAlias == {n \in DOMAIN _KEY_ALIASES :
                    \E j \in DOMAIN _KEY_ALIASES[n].aliases :
                      Contains(line_upper, _KEY_ALIASES[n].aliases[j])}
      candidate == left_token_upper
                     \o SubSeq(line_upper, 1,
                               IF Len(line_upper) < CandidatePrefixLen
                               THEN Len(line_upper) ELSE CandidatePrefixLen)
      byName == {n \in DOMAIN _KEY_ALIASES :
                   Contains(candidate, _KEY_ALIASES[n].name)}
  IN IF byAlias # {} THEN _KEY_ALIASES[SetMin(byAlias)].canon
     ELSE IF left_token_upper # <<>> /\ byName # {}
     THEN _KEY_ALIASES[SetMin(byName)].canon
     ELSE NoneKey

TrailJunk == {" ", ".", ";"}
_extract_value_from_line(original_line) ==
  IF HasChar(original_line, ":")
  THEN RStripSet(Strip(Strip(Drop(original_line,
                                  IndexOf(original_line, ":") + 1))),
                 TrailJunk)
  ELSE LET parts == SplitFirstWord(Strip(original_line))
       IN IF Len(parts) = 2 THEN RStripSet(Strip(parts[2]), TrailJunk)
          ELSE RStripSet(Strip(original_line), TrailJunk)

\* every alias in the iteration order of _KEY_ALIASES.values()
AllAliases ==
  LET RECURSIVE Flat(_)
      Flat(n) == IF n > Len(_KEY_ALIASES) THEN <<>>
                 ELSE _KEY_ALIASES[n].aliases \o Flat(n + 1)
  IN Flat(1)

_clean_leading_fragment(val) ==
  IF val = <<>> THEN val
  ELSE TheOne({
         LET rest(a) == LStripSet(Drop(val, Len(a) + 1), {" ", ":", "-", "."})
             hits == {j \in DOMAIN aliases :
                        StartsWith(vup, aliases[j]) /\ rest(aliases[j]) # <<>>}
         IN IF hits = {} THEN val ELSE rest(aliases[SetMin(hits)])
         : vup \in {LStripSet(Upper(val), Spaces)}, aliases \in {AllAliases}})

\* the text of a file: read() of the lines, each ended by a newline
_collect_all_text(lines) ==
  LET RECURSIVE Join(_)
      Join(n) == IF n > Len(lines) THEN <<>>
                 ELSE lines[n] \o <<"\n">> \o Join(n + 1)
  IN Join(1)

RECURSIVE DistinctTokens(_, _)
\* the loop over tokens: key + num of every first-seen letter group
DistinctTokens(tokens, seen) ==
  IF tokens = <<>> THEN <<>>
  ELSE LET key == Strip(Head(tokens)[1])
       IN IF key \in seen THEN DistinctTokens(Tail(tokens), seen)
          ELSE key \o Head(tokens)[2]
                 \o DistinctTokens(Tail(tokens), seen \cup {key})

_find_stoich_tokens_in_text(text) ==
  IF text = <<>> THEN NoneStr
  ELSE TheOne({
         IF tokens # <<>> THEN DistinctTokens(tokens, {})
         ELSE IF compact # <<>> THEN compact
         ELSE NoneStr
         : tokens \in {StoichTokens(text, 1)},
           compact \in {CompactTokens(text, 1)}})

(***************************************************************************)
(* The file system and the host, as the code sees them                     *)
(***************************************************************************)

Cwd == <<"/", "w">>
Home == <<"/", "h">>
ScriptDir == <<"/", "s">>
\* the directories that exist; os.path.join(script_dir, 'examples') does not
ExistingDirs == {Cwd, Home, ScriptDir}

\* os.path.expanduser
ExpandUser(p) ==
  IF p # <<>> /\ p[1] = "~" /\ (Len(p) = 1 \/ p[2] = "/")
  THEN Home \o Drop(p, 2) ELSE p
\* the absolute path the operating system resolves p to
AbsPath(p) ==
  IF p # <<>> /\ p[1] = "/" THEN p
  ELSE IF p = <<".">> THEN Cwd
  ELSE IF StartsWith(p, <<".", "/">>) THEN Cwd \o <<"/">> \o Drop(p, 3)
  ELSE Cwd \o <<"/">> \o p
\* os.path.isfile, os.path.exists
IsFile(files, p) == AbsPath(p) \in DOMAIN files
PathExists(files, p) == IsFile(files, p) \/ AbsPath(p) \in ExistingDirs

\* the lines open(p) iterates over; opening a directory raises, which the
\* parser swallows, so it yields no line
ReadLines(files, p) == IF IsFile(files, p) THEN files[AbsPath(p)] ELSE <<>>

(***************************************************************************)
(* _parse_ts_metadata                                                      *)
(***************************************************************************)

\* the locals out, remarks, other before the loop; attr records, for every
\* line the loop has examined, the containers that line was written to
ScanStart ==
  [out |-> [k \in CanonKeys |-> NoneStr], remarks |-> <<>>, other |-> <<>>,
   attr |-> <<>>]

\* key in other, for the ordered mapping kept as a sequence of <<key, value>>
HasKey(other, key) == \E j \in DOMAIN other : other[j][1] = key
LineTag(i) == <<"L", "I", "N", "E", "_">> \o IntToStr(i)
RemarkTag == <<"R", "E", "M", "A", "R", "K">>
MaxCapturedLen == 300

\* left_token of a header line
LeftToken(line) ==
  IF HasChar(line, ":")
  THEN Upper(Strip(SubSeq(line, 1, IndexOf(line, ":") - 1)))
  ELSE LET parts == SplitFirstWord(Strip(line))
       IN IF parts # <<>> THEN Upper(parts[1]) ELSE <<>>

\* ScanHeaderLine storing a canonical value only when the key has none yet
ScanHeaderLineFirstWins(st, i, line, written) ==
  TheOne({
     IF canon # NoneKey
     THEN IF _looks_like_coordinate_line(val) \/ DigitsThenToken(val)
          THEN [st EXCEPT !.attr = Append(@, written)]
          ELSE IF val # <<>> /\ st.out[canon] = NoneStr
          THEN [st EXCEPT !.out[canon] = val,
                          !.attr = Append(@, written \cup {"canonical"})]
          ELSE [st EXCEPT !.attr = Append(@, written)]
     ELSE IF m.matched
     THEN IF m.gk # <<>> /\ m.gv # <<>> /\ ~HasKey(st.other, m.gk)
          THEN [st EXCEPT !.other = Append(@, <<m.gk, m.gv>>),
                          !.attr = Append(@, written \cup {"other_keyed"})]
          ELSE [st EXCEPT !.attr = Append(@, written)]
     ELSE IF line # <<>> /\ Len(Strip(line)) < MaxCapturedLen
     THEN IF ~HasKey(st.other, tag)
          THEN [st EXCEPT !.other = Append(@, <<tag, Strip(line)>>),
                          !.attr = Append(@, written \cup {"other_lineN"})]
          ELSE [st EXCEPT !.attr = Append(@, written)]
     ELSE [st EXCEPT !.attr = Append(@, written)]
     : canon \in {_identify_canonical_key(Upper(line), LeftToken(line))},
       val \in {_clean_leading_fragment(_extract_value_from_line(line))},
       m \in {GenericMatch(line)},
       tag \in {LineTag(i)}})

\* the loop body from the canonical-key test on, for a line that is neither
\* blank, coordinate-like nor a remark; written adds the containers written
ScanHeaderLine(st, i, line, written) ==
  TheOne({
     IF canon # NoneKey
     THEN IF _looks_like_coordinate_line(val) \/ DigitsThenToken(val)
          THEN [st EXCEPT !.attr = Append(@, written)]
          ELSE IF val # <<>>
          THEN [st EXCEPT !.out[canon] = val,
                          !.attr = Append(@, written \cup {"canonical"})]
          ELSE [st EXCEPT !.attr = Append(@, written)]
     ELSE IF m.matched
     THEN IF m.gk # <<>> /\ m.gv # <<>> /\ ~HasKey(st.other, m.gk)
          THEN [st EXCEPT !.other = Append(@, <<m.gk, m.gv>>),
                          !.attr = Append(@, written \cup {"other_keyed"})]
          ELSE [st EXCEPT !.attr = Append(@, written)]
     ELSE IF line # <<>> /\ Len(Strip(line)) < MaxCapturedLen
     THEN IF ~HasKey(st.other, tag)
          THEN [st EXCEPT !.other = Append(@, <<tag, Strip(line)>>),
                          !.attr = Append(@, written \cup {"other_lineN"})]
          ELSE [st EXCEPT !.attr = Append(@, written)]
     ELSE [st EXCEPT !.attr = Append(@, written)]
     : canon \in {_identify_canonical_key(Upper(line), LeftToken(line))},
       val \in {_clean_leading_fragment(_extract_value_from_line(line))},
       m \in {GenericMatch(line)},
       tag \in {LineTag(i)}})

\* the remark test without its continue: the line goes on to the later tests
ScanLineFallThrough(st, i, line) ==
  IF StartsWith(Strip(Upper(line)), RemarkTag)
  THEN ScanHeaderLine([st EXCEPT !.remarks = Append(@, Strip(line))],
                      i, line, {"remark"})
  ELSE ScanHeaderLine(st, i, line, {})

\* one iteration of the loop for a line that is neither blank nor
\* coordinate-like
ScanLine(st, i, line) ==
  IF StartsWith(Strip(Upper(line)), RemarkTag)
  THEN [st EXCEPT !.remarks = Append(@, Strip(line)),
                  !.attr = Append(@, {"remark"})]
  ELSE ScanHeaderLine(st, i, line, {})

\* the loop guard: enumerate() is exhausted, or i > max_header_lines breaks
ScanStops(lines, i, max_header_lines) ==
  i >= Len(lines) \/ i > max_header_lines

RECURSIVE ScanFromNoBreak(_, _, _, _)
\* the loop with continue in place of break at a coordinate-like line
ScanFromNoBreak(lines, i, max_header_lines, st) ==
  IF ScanStops(lines, i, max_header_lines) THEN st
  ELSE LET line == lines[i + 1]
       IN IF Strip(line) = <<>> \/ _looks_like_coordinate_line(line)
          THEN ScanFromNoBreak(lines, i + 1, max_header_lines,
                               [st EXCEPT !.attr = Append(@, {})])
          ELSE ScanFromNoBreak(lines, i + 1, max_header_lines,
                               ScanLine(st, i, line))

RECURSIVE ScanFrom(_, _, _, _)
\* the loop from 0-based line index i on
ScanFrom(lines, i, max_header_lines, st) ==
  IF ScanStops(lines, i, max_header_lines) THEN st
  ELSE LET line == lines[i + 1]
       IN IF Strip(line) = <<>>
          THEN ScanFrom(lines, i + 1, max_header_lines,
                        [st EXCEPT !.attr = Append(@, {})])
          ELSE IF _looks_like_coordinate_line(line) THEN st
          ELSE ScanFrom(lines, i + 1, max_header_lines, ScanLine(st, i, line))

\* out, remarks, other when the loop has ended
HeaderScan(lines, max_header_lines) ==
  ScanFrom(lines, 0, max_header_lines, ScanStart)

\* "post-process stoich if missing": the whole text is searched
PostStoich(out, lines) ==
  IF out["STOICH"] = NoneStr
  THEN TheOne({
         IF found # NoneStr THEN [out EXCEPT !["STOICH"] = found] ELSE out
         : found \in {_find_stoich_tokens_in_text(_collect_all_text(lines))}})
  ELSE out

\* "normalize SCORE to numeric if present"
PostScore(out) ==
  IF out["SCORE"] # NoneStr
  THEN TheOne({
         IF num # NoneStr THEN [out EXCEPT !["SCORE"] = num] ELSE out
         : num \in {FirstNumber(out["SCORE"])}})
  ELSE out

\* Python's None where a metadata record is expected
NoneMeta == [none |-> TRUE]

\* the returned OrderedDict; OTHER is a key only when other is not empty
BuildResult(out, remarks, other) ==
  IF other # <<>>
  THEN out @@ ("REMARKS" :> remarks) @@ ("OTHER" :> other)
  ELSE out @@ ("REMARKS" :> remarks)

\* the call's locals when the loop has ended (scan) and what it returns
ParseOutcome(files, ts_path, max_header_lines) ==
  IF ts_path = NoneStr \/ ts_path = <<>> \/ ~PathExists(files, ts_path)
  THEN [scan |-> ScanStart, result |-> NoneMeta]
  ELSE TheOne({
         [scan |-> st,
          result |-> BuildResult(
                       PostScore(PostStoich(st.out, ReadLines(files, ts_path))),
                       st.remarks, st.other)]
         : st \in {HeaderScan(ReadLines(files, ts_path), max_header_lines)}})

_parse_ts_metadata(files, ts_path, max_header_lines) ==
  ParseOutcome(files, ts_path, max_header_lines).result

DefaultMaxHeaderLines == 2000

(***************************************************************************)
(* os.path, os.listdir, glob and fnmatch, as far as the commands use them  *)
(***************************************************************************)

\* s.rfind(c) + 1: the index of the last c in s, 0 when there is none
LastIndexOf(s, c) ==
  IF HasChar(s, c)
  THEN CHOOSE i \in 1..Len(s) : s[i] = c /\ \A r \in (i + 1)..Len(s) : s[r] # c
  ELSE 0

\* os.path.basename, os.path.dirname
Basename(p) == Drop(p, LastIndexOf(p, "/") + 1)
Dirname(p) ==
  LET head == SubSeq(p, 1, LastIndexOf(p, "/"))
  IN IF \E i \in 1..Len(head) : head[i] # "/"
     THEN RStripSet(head, {"/"}) ELSE head

\* os.path.splitext: <<root, ext>>; leading dots of the basename are no
\* extension
SplitExt(p) ==
  LET sep == LastIndexOf(p, "/")
      dot == LastIndexOf(p, ".")
  IN IF dot > sep /\ \E j \in (sep + 1)..(dot - 1) : p[j] # "."
     THEN <<SubSeq(p, 1, dot - 1), Drop(p, dot)>>
     ELSE <<p, <<>>>>

\* os.path.join(d, fn)
Join(d, fn) ==
  IF StartsWith(fn, <<"/">>) THEN fn
  ELSE IF d = <<>> \/ EndsWith(d, <<"/">>) THEN d \o fn
  ELSE d \o <<"/">> \o fn

\* os.path.isdir
IsDir(p) == AbsPath(p) \in ExistingDirs

\* the enumerations of a finite set: the orders a directory listing can
\* come in
Orders(S) ==
  {o \in [1..Cardinality(S) -> S] : \A i, j \in DOMAIN o : o[i] = o[j] => i = j}

\* what the operating system may answer to the listings of one call: the
\* files in the order it enumerates them, which is no particular order
Listings(files) == Orders(DOMAIN files)

\* os.listdir(d), given the order listing; the directories that are listed
\* hold files only
ListDir(listing, d) ==
  LET here(p) == Dirname(p) = AbsPath(d)
      paths   == SelectSeq(listing, here)
  IN SubSeq([i \in 1..Len(paths) |-> Basename(paths[i])], 1, Len(paths))

RECURSIVE FnMatch(_, _)
\* fnmatch.fnmatch(name, pat) for patterns made of literals, * and ?
FnMatch(pat, name) ==
  IF pat = <<>> THEN name = <<>>
  ELSE IF pat[1] = "*"
  THEN \E k \in 1..(Len(name) + 1) : FnMatch(Tail(pat), Drop(name, k))
  ELSE /\ name # <<>>
       /\ pat[1] = "?" \/ pat[1] = name[1]
       /\ FnMatch(Tail(pat), Tail(name))

\* glob.has_magic
HasMagic(p) == \E i \in 1..Len(p) : p[i] \in {"*", "?", "["}

\* glob.glob(pattern) for a pattern whose directory part has no wildcard
Glob(files, listing, pattern) ==
  IF ~HasMagic(pattern)
  THEN IF pattern # <<>> /\ PathExists(files, pattern) THEN <<pattern>> ELSE <<>>
  ELSE LET d     == Dirname(pattern)
           b     == Basename(pattern)
           dir   == IF d = <<>> THEN <<".">> ELSE d
           names == IF IsDir(dir) THEN ListDir(listing, dir) ELSE <<>>
           keep(n) == FnMatch(b, n) /\ (n[1] = "." => b[1] = ".")
           kept  == SelectSeq(names, keep)
       IN SubSeq([i \in 1..Len(kept) |-> Join(d, kept[i])], 1, Len(kept))

(***************************************************************************)
(* _TS_META_CACHE and the rendering of a record                            *)
(***************************************************************************)

\* _TS_META_CACHE.get(key)
CacheGet(cache, key) == IF key \in DOMAIN cache THEN cache[key] ELSE NoneMeta
\* _TS_META_CACHE[key] = meta
CachePut(cache, key, meta) == (key :> meta) @@ cache

_FRIENDLY ==
  [STOICH |-> <<"S", "t", "o", "i", "c", "h", "i", "o", "m", "e", "t", "r", "y">>, SCORE |-> <<"S", "c", "o", "r", "e", "(", "s", ")">>, METHOD |-> <<"M", "e", "t", "h", "o", "d">>,
   AUTHOR |-> <<"A", "u", "t", "h", "o", "r">>, MODEL |-> <<"M", "o", "d", "e", "l">>]
PrintOrder == <<"STOICH", "AUTHOR", "METHOD", "SCORE", "MODEL">>
NoMetadataNotice == <<" ", " ", "(", "n", "o", " ", "T", "S", " ", "m", "e", "t", "a", "d", "a", "t", "a", " ", "a", "v", "a", "i", "l", "a", "b", "l", "e", ")">>
NoFieldsNotice == <<" ", " ", "(", "n", "o", " ", "r", "e", "c", "o", "g", "n", "i", "z", "e", "d", " ", "m", "e", "t", "a", "d", "a", "t", "a", " ", "f", "i", "e", "l", "d", "s", " ", "f", "o", "u", "n", "d", ")">>

\* the lines _pretty_print_trimmed(key, meta) prints
_pretty_print_trimmed(key, meta) ==
  LET head == <<"=", "=", "=", " ", "T", "S", " ", "m", "e", "t", "a", "d", "a", "t", "a", " ", "f", "o", "r", ":", " ">> \o key \o <<" ", "=", "=", "=">>
      set(k) == meta[k] # NoneStr /\ meta[k] # <<>>
      shown == SelectSeq(PrintOrder, set)
  IN IF meta = NoneMeta THEN <<head, NoMetadataNotice>>
     ELSE IF shown = <<>> THEN <<head, NoFieldsNotice>>
     ELSE <<head>> \o SubSeq([i \in 1..Len(shown) |->
                                _FRIENDLY[shown[i]] \o <<":", " ">> \o meta[shown[i]]],
                             1, Len(shown))

(***************************************************************************)
(* The commands                                                            *)
(***************************************************************************)

\* the truth value Python gives a str or None
TruthyStr(s) == s # NoneStr /\ s # <<>>
\* x in objs, for the list cmd.get_names() returns
InList(objs, x) == \E i \in DOMAIN objs : objs[i] = x
\* [n for n in objs if identifier in n]
NamesContaining(objs, identifier) ==
  LET has(n) == Contains(n, identifier) IN SelectSeq(objs, has)
\* the file system once another process has removed p
Removed(files, p) == [q \in DOMAIN files \ {AbsPath(p)} |-> files[q]]

\* _TS_META_CACHE[key] = meta in the loop of parse_ts, skipped when the key
\* is stored already
StoreParsedOnce(cache, key, meta) ==
  IF key \in DOMAIN cache THEN cache ELSE CachePut(cache, key, meta)

\* _TS_META_CACHE[key] = meta in the loop of parse_ts
StoreParsed(cache, key, meta) == CachePut(cache, key, meta)

RECURSIVE ParseEach(_, _, _, _, _)
\* the loop of parse_ts from the i-th match on: the cache and results at its end
ParseEach(files, matches, i, cache, results) ==
  IF i > Len(matches) THEN [cache |-> cache, results |-> results]
  ELSE TheOne({
         ParseEach(files, matches, i + 1, StoreParsed(cache, key, meta),
                   Append(results,
                          [key |-> key, ts |-> matches[i], meta |-> meta]))
         : key \in {SplitExt(Basename(matches[i]))[1]},
           meta \in {_parse_ts_metadata(files, matches[i],
                                        DefaultMaxHeaderLines)}})

\* matches in parse_ts, for the expanded pattern p
ParseMatches(files, listing, p) ==
  TheOne({
    IF globbed # <<>> THEN globbed
    ELSE IF PathExists(files, p) THEN <<p>> ELSE <<>>
    : globbed \in {Glob(files, listing, p)}})

\* parse_ts(ts_pattern): matches, and the cache and the returned list
ParseTsOutcome(files, listing, cache, ts_pattern) ==
  TheOne({
    [matches |-> matches] @@ ParseEach(files, matches, 1, cache, <<>>)
    : matches \in {ParseMatches(files, listing, ExpandUser(ts_pattern))}})

\* _resolve_object_or_path(identifier): <<kind, val>>, kind "None" for None
_resolve_object_or_path(files, objs, identifier) ==
  LET p       == ExpandUser(identifier)
      matches == NamesContaining(objs, identifier)
  IN IF PathExists(files, p)
        /\ (EndsWith(Lower(p), <<".", "p", "d", "b">>) \/ EndsWith(Lower(p), <<".", "e", "n", "t">>))
     THEN <<"path", p>>
     ELSE IF InList(objs, identifier) THEN <<"object", identifier>>
     ELSE IF Len(matches) = 1 THEN <<"object", matches[1]>>
     ELSE <<"None", NoneStr>>

\* _find_ts_candidate(pdb_path)
_find_ts_candidate(files, listing, pdb_path) ==
  LET base == SplitExt(pdb_path)[1]
      candidates == <<base \o <<".", "t", "s">>, base \o <<".", "T", "S">>, base \o <<"_", "T", "S", ".", "t", "x", "t">>,
                      base \o <<"_", "t", "s", ".", "t", "x", "t">>, base \o <<".", "t", "x", "t">>>>
      there(c) == PathExists(files, c)
      d == IF Dirname(pdb_path) = <<>> THEN <<".">> ELSE Dirname(pdb_path)
      fits(fn) == /\ Contains(fn, base)
                  /\ Contains(Upper(fn), <<"T", "S">>)
                  /\ EndsWith(Lower(fn), <<".", "t", "x", "t">>) \/ EndsWith(Lower(fn), <<".", "t", "s">>)
                  /\ IsFile(files, Join(d, fn))
      listed == IF IsDir(d) THEN SelectSeq(ListDir(listing, d), fits) ELSE <<>>
  IN IF SelectSeq(candidates, there) # <<>> THEN SelectSeq(candidates, there)[1]
     ELSE IF listed # <<>> THEN Join(d, listed[1])
     ELSE NoneStr

\* cmd.load(pdb_path, obj_name): the names of the open objects afterwards
CmdLoad(objs, obj_name) ==
  IF InList(objs, obj_name) THEN objs ELSE Append(objs, obj_name)

\* _TS_META_CACHE[obj_name] = meta in load_model_with_ts, skipped when there
\* is no record
LoadStoreIfRecord(cache, obj_name, meta) ==
  IF meta = NoneMeta THEN cache ELSE CachePut(cache, obj_name, meta)

\* _TS_META_CACHE[obj_name] = meta in load_model_with_ts
LoadStore(cache, obj_name, meta) == CachePut(cache, obj_name, meta)

\* load_model_with_ts(pdb_or_obj, ts_path)
LoadOutcome(files, listing, objs, cache, pdb_or_obj, ts_path) ==
  TheOne({
    LET kind     == res[1]
        pdb_path == IF kind = "path" THEN res[2] ELSE NoneStr
        obj_name == IF kind = "path" THEN SplitExt(Basename(res[2]))[1]
                    ELSE res[2]
    IN IF kind = "None"
       THEN [object |-> NoneStr, ts |-> NoneStr, meta |-> NoneMeta,
             objs |-> objs, cache |-> cache, printed |-> <<>>]
       ELSE TheOne({
              TheOne({
                [object |-> obj_name, ts |-> ts, meta |-> meta,
                 objs |-> IF kind = "path" THEN CmdLoad(objs, obj_name)
                          ELSE objs,
                 cache |-> LoadStore(cache, obj_name, meta),
                 printed |-> _pretty_print_trimmed(obj_name, meta)]
                : meta \in {IF ts # NoneStr
                            THEN _parse_ts_metadata(files, ts,
                                                    DefaultMaxHeaderLines)
                            ELSE NoneMeta}})
              : ts \in {IF given = NoneStr /\ pdb_path # NoneStr
                        THEN _find_ts_candidate(files, listing, pdb_path)
                        ELSE given}})
    : res \in {_resolve_object_or_path(files, objs, pdb_or_obj)},
      given \in {IF TruthyStr(ts_path)
                     /\ PathExists(files, ExpandUser(ts_path))
                  THEN ExpandUser(ts_path) ELSE NoneStr}})

\* _TS_META_CACHE[obj_name] = res in attach_ts, without the "if not res" test
\* before it
AttachStoreUnchecked(cache, obj_name, res) == CachePut(cache, obj_name, res)

\* "if not res: return" and then _TS_META_CACHE[obj_name] = res, in attach_ts
AttachStore(cache, obj_name, res) ==
  IF res = NoneMeta THEN cache ELSE CachePut(cache, obj_name, res)

\* attach_ts(ts_path, obj_identifier); gone: another process removes the file
\* between the os.path.exists test and the parse
AttachOutcome(files, objs, cache, ts_path, obj_identifier, gone) ==
  TheOne({
    LET obj_name == IF InList(objs, obj_identifier) THEN obj_identifier
                    ELSE IF Len(matches) = 1 THEN matches[1] ELSE NoneStr
        failed(why) == [ok |-> FALSE, why |-> why, obj_name |-> obj_name,
                        cache |-> cache, files |-> files, printed |-> <<>>]
    IN IF ~PathExists(files, p) THEN failed("TS file not found")
       ELSE IF obj_name = NoneStr /\ Len(matches) > 1
       THEN failed("ambiguous object identifier")
       ELSE IF obj_name = NoneStr THEN failed("object not found")
       ELSE TheOne({
              [ok |-> res # NoneMeta,
               why |-> IF res # NoneMeta THEN "attached"
                       ELSE "parsing returned no metadata",
               obj_name |-> obj_name,
               cache |-> AttachStore(cache, obj_name, res),
               files |-> fs,
               printed |-> IF res # NoneMeta
                           THEN _pretty_print_trimmed(obj_name, res)
                           ELSE <<>>]
              : fs \in {IF gone THEN Removed(files, p) ELSE files},
                res \in {_parse_ts_metadata(
                           IF gone THEN Removed(files, p) ELSE files,
                           p, DefaultMaxHeaderLines)}})
    : p \in {ExpandUser(ts_path)},
      matches \in {NamesContaining(objs, obj_identifier)}})

\* "if meta is not None" in _show_for_key, never taken
NeverCached(meta) == FALSE

\* "if meta is not None" in _show_for_key
IsCached(meta) == meta # NoneMeta

\* _TS_META_CACHE[key] = parsed in _show_for_key, without the "if parsed" test
\* around it
ShowStoreUnchecked(cache, key, parsed) == CachePut(cache, key, parsed)

\* "if parsed: _TS_META_CACHE[key] = parsed" in _show_for_key
ShowStore(cache, key, parsed) ==
  IF parsed = NoneMeta THEN cache ELSE CachePut(cache, key, parsed)

RECURSIVE _gather_candidates(_, _)
\* _gather_candidates(search_dirs)
_gather_candidates(listing, search_dirs) ==
  IF search_dirs = <<>> THEN <<>>
  ELSE LET d == Head(search_dirs)
           wanted(fn) == EndsWith(Lower(fn), <<".", "t", "x", "t">>) \/ EndsWith(Lower(fn), <<".", "t", "s">>)
           names == IF IsDir(d) THEN SelectSeq(ListDir(listing, d), wanted)
                    ELSE <<>>
       IN SubSeq([i \in 1..Len(names) |-> Join(d, names[i])], 1, Len(names))
          \o _gather_candidates(listing, Tail(search_dirs))

\* search_dirs = [cwd, examples_dir, script_dir, home]
SearchDirs == <<Cwd, Join(ScriptDir, <<"e", "x", "a", "m", "p", "l", "e", "s">>), ScriptDir, Home>>

\* bn.upper() == key_up
IsBaseMatch(key_up, path) == Upper(SplitExt(Basename(path))[1]) = key_up

\* the elif of the matching loop, never taken
NoSubstrMatch(key_up, path) == FALSE

\* key_up in os.path.basename(path).upper()
IsSubstrMatch(key_up, path) == Contains(Upper(Basename(path)), key_up)

\* the loop over the open objects that runs when chosen is None:
\* <<chosen, key>> at its end
ObjectFallback(objs, candidates, key) ==
  LET named(n, path) == Contains(Upper(Basename(path)), Upper(n))
      fits(n) == /\ key = n \/ Contains(n, key)
                 /\ \E i \in DOMAIN candidates : named(n, candidates[i])
      hits == SelectSeq(objs, fits)
  IN IF hits = <<>> THEN <<NoneStr, key>>
     ELSE LET isn(path) == named(hits[1], path)
          IN <<SelectSeq(candidates, isn)[1], hits[1]>>

\* the matching loop of _show_for_key and the object fallback after it:
\* <<chosen, key>> at their end
ChooseCandidate(objs, candidates, key) ==
  LET key_up        == Upper(key)
      base(p)       == IsBaseMatch(key_up, p)
      substr(p)     == ~IsBaseMatch(key_up, p) /\ IsSubstrMatch(key_up, p)
  IN TheOne({
       IF basematches # <<>> THEN <<basematches[1], key>>
       ELSE IF substrmatches # <<>> THEN <<substrmatches[1], key>>
       ELSE ObjectFallback(objs, candidates, key)
       : basematches \in {SelectSeq(candidates, base)},
         substrmatches \in {SelectSeq(candidates, substr)}})

\* what a call of _show_for_key leaves behind: what it returned (ok), the
\* way it took, its locals key and chosen, the cache, the file system and
\* what it printed
ShowEnded(ok, route, k, path, c, fs, shown) ==
  [ok |-> ok, route |-> route, key |-> k, chosen |-> path, cache |-> c,
   files |-> fs, meta |-> shown,
   printed |-> IF ok THEN _pretty_print_trimmed(k, shown) ELSE <<>>]

\* "parsed = _parse_ts_metadata(...)" and what follows it, for the file at
\* path as it is when it is read (fs)
ShowParsed(fs, cache, route, k, path) ==
  TheOne({
    ShowEnded(parsed # NoneMeta,
              IF parsed # NoneMeta THEN route ELSE "parsing failed",
              k, path, ShowStore(cache, k, parsed), fs, parsed)
    : parsed \in {_parse_ts_metadata(fs, path, DefaultMaxHeaderLines)}})

\* _show_for_key(key, explicit_ts); gone: another process removes the file
\* that is about to be parsed, after it was found to exist
_show_for_key(files, listing, objs, cache, key, explicit_ts, gone) ==
  IF IsCached(CacheGet(cache, key))
  THEN ShowEnded(TRUE, "cached", key, NoneStr, cache, files,
                 CacheGet(cache, key))
  ELSE IF TruthyStr(explicit_ts)
  THEN IF PathExists(files, ExpandUser(explicit_ts))
          /\ IsFile(files, ExpandUser(explicit_ts))
       THEN ShowParsed(IF gone THEN Removed(files, ExpandUser(explicit_ts))
                       ELSE files,
                       cache, "explicit", key, ExpandUser(explicit_ts))
       ELSE ShowEnded(FALSE, "provided TS path not found", key, NoneStr,
                      cache, files, NoneMeta)
  ELSE TheOne({
         IF pick[1] # NoneStr
         THEN ShowParsed(IF gone THEN Removed(files, pick[1]) ELSE files,
                         cache, "found", pick[2], pick[1])
         ELSE ShowEnded(FALSE, "nothing found", pick[2], NoneStr, cache,
                        files, NoneMeta)
         : pick \in {ChooseCandidate(
                       objs, _gather_candidates(listing, SearchDirs), key)}})

\* sel.isdigit()
IsDigits(s) == s # <<>> /\ \A i \in 1..Len(s) : s[i] \in Digits

RECURSIVE ParseInt(_)
\* int(s) for a str of digits
ParseInt(s) ==
  IF s = <<>> THEN 0
  ELSE 10 * ParseInt(SubSeq(s, 1, Len(s) - 1))
       + (CHOOSE d \in 0..9 : DigitSeq[d + 1] = s[Len(s)])

\* the key show_ts_info hands to _show_for_key, NoneStr when it returns
\* without calling it; typed is what input() returns, NoneStr when it raises
ShowTarget(objs, obj_or_key, typed) ==
  LET sel     == IF typed = NoneStr THEN NoneStr ELSE Strip(typed)
      matches == NamesContaining(objs, sel)
      idx     == ParseInt(sel) - 1
  IN IF TruthyStr(obj_or_key) THEN obj_or_key
     ELSE IF Len(objs) = 0 THEN NoneStr
     ELSE IF Len(objs) = 1 THEN objs[1]
     ELSE IF ~TruthyStr(sel) THEN NoneStr
     ELSE IF IsDigits(sel)
     THEN IF 0 <= idx /\ idx < Len(objs) THEN objs[idx + 1] ELSE NoneStr
     ELSE IF InList(objs, sel) THEN sel
     ELSE IF Len(matches) = 1 THEN matches[1]
     ELSE NoneStr

\* show_ts_info(obj_or_key, ts_path)
ShowOutcome(files, listing, objs, cache, obj_or_key, ts_path, typed, gone) ==
  TheOne({
    IF target = NoneStr
    THEN [target |-> NoneStr, ok |-> FALSE, route |-> "not called",
          key |-> NoneStr, chosen |-> NoneStr, cache |-> cache,
          files |-> files, meta |-> NoneMeta, printed |-> <<>>]
    ELSE [target |-> target]
         @@ _show_for_key(files, listing, objs, cache, target, ts_path, gone)
    : target \in {ShowTarget(objs, obj_or_key, typed)}})

(***************************************************************************)
(* State                                                                   *)
(***************************************************************************)

VARIABLES
  files,   \* the file system: absolute path -> the lines of the file
  objs,    \* cmd.get_names(): the names of the open objects, in order
  cache,   \* _TS_META_CACHE: key -> metadata record or NoneMeta
  stored_by, \* for every key of the cache, the command that stored its
             \* entry and the file the entry was parsed from
  last,    \* the last call: its arguments, its locals of interest at its
           \* end, what it printed and what it returned
  calls    \* the number of commands issued so far

vars == <<files, objs, cache, stored_by, last, calls>>

(***************************************************************************)
(* _parse_ts_metadata on its own: every file of at most MaxLines lines     *)
(* drawn from HeaderVocab, every limit up to MaxCap                        *)
(***************************************************************************)

MaxLines == 2
MaxCap == 2

\* a line of MaxCapturedLen characters: too long for the LINE_<n> fallback
LongLine == SubSeq([n \in 1..MaxCapturedLen |-> "x"], 1, MaxCapturedLen)

HeaderVocab ==
  {<<" ">> (* " ": a blank line *),
   <<"A", "T", "O", "M", " ", "1", " ", "N">> (* "ATOM 1 N": coordinate-like *),
   <<"R", "E", "M", "A", "R", "K", " ", "1">> (* "REMARK 1": a remark *),
   <<"S", "C", "O", "R", "E", ":", " ", "0", ".", "7", "2">> (* "SCORE: 0.72": SCORE, by its name *),
   <<"G", "D", "T", " ", "0", ".", "9">> (* "GDT 0.9": SCORE, by the alias GDT, no colon *),
   <<"S", "C", "O", "R", "E", ":">> (* "SCORE:": SCORE with an empty value *),
   <<"S", "C", "O", "R", "E", ":", " ", "1", " ", "A">> (* "SCORE: 1 A": SCORE with a value discarded as noise *),
   <<"S", "T", "O", "I", "C", "H", ":", " ", "A", "2">> (* "STOICH: A2": STOICH *),
   <<"K", ":", " ", "v">> (* "K: v": generic key K *),
   <<"K", ":", " ", "w">> (* "K: w": generic key K again *),
   <<"h", "e", "l", "l", "o">> (* "hello": unstructured *),
   <<"L", "I", "N", "E", "_", "1", ":", " ", "x">> (* "LINE_1: x": generic key that equals a line tag *),
   LongLine}

ParsePath == <<"/", "w", "/", "T", ".", "t", "s">>
ParseInputs == UNION {[1..n -> HeaderVocab] : n \in 0..MaxLines}

ParseInit ==
  /\ files \in {(ParsePath :> ls) : ls \in ParseInputs}
  /\ objs = <<>>
  /\ cache = <<>>
  /\ stored_by = <<>>
  /\ last = [op |-> "start"]
  /\ calls = 0

\* one call _parse_ts_metadata(ParsePath, m)
ParseCall ==
  /\ last.op = "start"
  /\ \E m \in 0..MaxCap :
       \E done \in {ParseOutcome(files, ParsePath, m)} :
         last' = [op |-> "_parse_ts_metadata",
                  max_header_lines |-> m,
                  scan |-> done.scan,
                  result |-> done.result]
  /\ UNCHANGED <<files, objs, cache, stored_by, calls>>

ParseNext == ParseCall
ParseSpec == ParseInit /\ [][ParseNext]_vars

(***************************************************************************)
(* Claims about _parse_ts_metadata (checked under ParseSpec)               *)
(***************************************************************************)

Parsed == last.op = "_parse_ts_metadata"
TheLines == ReadLines(files, ParsePath)
IsBlank(line) == Strip(line) = <<>>
IsRemark(line) == StartsWith(Strip(Upper(line)), RemarkTag)
CanonOf(line) == _identify_canonical_key(Upper(line), LeftToken(line))
ValueOf(line) == _clean_leading_fragment(_extract_value_from_line(line))
IsNoise(val) == _looks_like_coordinate_line(val) \/ DigitsThenToken(val)

\* the 0-based index of the first coordinate-like line, Len(lines) if none
FirstCoord(lines) ==
  IF \E n \in 1..Len(lines) : _looks_like_coordinate_line(lines[n])
  THEN (CHOOSE n \in 1..Len(lines) :
          /\ _looks_like_coordinate_line(lines[n])
          /\ \A r \in 1..(n - 1) : ~_looks_like_coordinate_line(lines[r])) - 1
  ELSE Len(lines)
\* the file cut just before its first coordinate-like line
Truncated(lines) == SubSeq(lines, 1, FirstCoord(lines))
\* the 0-based indices of the non-blank lines before the first
\* coordinate-like line
HeaderIdx(lines) == {i \in 0..(FirstCoord(lines) - 1) : ~IsBlank(lines[i + 1])}
\* the loop examined line i
Examined(i) == i < Len(last.scan.attr)
\* the containers line i was written to
Attr(i) == IF Examined(i) THEN last.scan.attr[i + 1] ELSE {}

\* the one container the shape of line i selects
ContainerOf(line) ==
  IF IsRemark(line) THEN "remark"
  ELSE IF CanonOf(line) # NoneKey THEN "canonical"
  ELSE IF GenericMatch(line).matched THEN "other_keyed"
  ELSE "other_lineN"
\* line i is written nowhere: its canonical value is empty or noise, its
\* generic key or value is empty or the key is already in other, it is
\* MaxCapturedLen characters or longer, or its LINE_<i> tag is already in other
Dropped(lines, i) ==
  LET line   == lines[i + 1]
      before == HeaderScan(SubSeq(lines, 1, i), i).other
      m      == GenericMatch(line)
  IN CASE ContainerOf(line) = "remark" -> FALSE
       [] ContainerOf(line) = "canonical" ->
            ValueOf(line) = <<>> \/ IsNoise(ValueOf(line))
       [] ContainerOf(line) = "other_keyed" ->
            m.gk = <<>> \/ m.gv = <<>> \/ HasKey(before, m.gk)
       [] ContainerOf(line) = "other_lineN" ->
            Len(Strip(line)) >= MaxCapturedLen \/ HasKey(before, LineTag(i))

\* C7 as claimed: every non-blank header line before the first
\* coordinate-like line is attributed to exactly one of remark, canonical
\* field, other by generic key, other by LINE_<n>; none to two, none to none.
C7_ExactlyOne ==
  Parsed => \A i \in HeaderIdx(TheLines) : Cardinality(Attr(i)) = 1

\* C7 as amended: every non-blank line the header scan examines before the
\* first coordinate-like line is attributed to at most one container, the
\* one its shape selects, and to none exactly when it is dropped (see
\* Dropped).
C7_AtMostOne ==
  Parsed =>
    \A i \in HeaderIdx(TheLines) :
      Examined(i) =>
        /\ Cardinality(Attr(i)) <= 1
        /\ Attr(i) \subseteq {ContainerOf(TheLines[i + 1])}
        /\ Attr(i) = {} <=> Dropped(TheLines, i)

\* C7's case: a parsed file with an attributed header line and a dropped one
C7_Witness ==
  /\ Parsed
  /\ \E i, j \in HeaderIdx(TheLines) :
       /\ Examined(i) /\ Examined(j)
       /\ Cardinality(Attr(i)) = 1
       /\ Attr(j) = {}

\* the record _parse_ts_metadata returns for the truncated file
TruncatedResult ==
  _parse_ts_metadata((ParsePath :> Truncated(TheLines)), ParsePath,
                     last.max_header_lines)

\* C8 as claimed: the returned record, STOICH included, is the record of the
\* file truncated just before its first coordinate-like line.
C8_SameAsTruncated == Parsed => last.result = TruncatedResult

\* C8 as amended: no line at or after the first coordinate-like line is
\* examined by the header scan, and the returned record equals the truncated
\* file's in remarks, other and every canonical field, except that STOICH,
\* when the header gave none, is synthesized from the whole text, the lines
\* at and after the coordinate-like line included.
C8_SameExceptStoich ==
  Parsed =>
    \E t \in {TruncatedResult} :
      /\ Len(last.scan.attr) <= FirstCoord(TheLines)
      /\ last.scan = HeaderScan(Truncated(TheLines), last.max_header_lines)
      /\ DOMAIN last.result = DOMAIN t
      /\ \A k \in DOMAIN last.result \ {"STOICH"} : last.result[k] = t[k]
      /\ last.scan.out["STOICH"] # NoneStr =>
           last.result["STOICH"] = t["STOICH"]
      /\ last.scan.out["STOICH"] = NoneStr =>
           last.result["STOICH"] =
             _find_stoich_tokens_in_text(_collect_all_text(TheLines))

\* C8's case: a line after the first coordinate-like line names a canonical
\* key, and the record holds nothing for that key
C8_Witness ==
  /\ Parsed
  /\ \E i \in (FirstCoord(TheLines) + 1)..(Len(TheLines) - 1) :
       /\ i <= last.max_header_lines
       /\ CanonOf(TheLines[i + 1]) \notin {NoneKey, "STOICH"}
       /\ ValueOf(TheLines[i + 1]) # <<>>
       /\ last.result[CanonOf(TheLines[i + 1])] = NoneStr

\* C9 as claimed: the scan stops at max_header_lines, so that no line with
\* 0-based index >= max_header_lines is attributed to a remark, a canonical
\* field or an other entry.
C9_CapRespected ==
  Parsed =>
    \A i \in 0..(Len(TheLines) - 1) :
      i >= last.max_header_lines => Attr(i) = {}

\* the examined header lines that give canonical key k a value that is
\* neither empty nor discarded
Storing(k) ==
  {i \in HeaderIdx(TheLines) :
     /\ Examined(i)
     /\ ~IsRemark(TheLines[i + 1])
     /\ CanonOf(TheLines[i + 1]) = k
     /\ ValueOf(TheLines[i + 1]) # <<>>
     /\ ~IsNoise(ValueOf(TheLines[i + 1]))}

\* C10: at the end of the header scan every canonical key holds the value of
\* the last header line that gave it a non-empty, non-discarded value (and
\* nothing when there is no such line).
C10_LastWins ==
  Parsed =>
    \A k \in CanonKeys :
      \E s \in {Storing(k)} :
        last.scan.out[k] =
          IF s = {} THEN NoneStr ELSE ValueOf(TheLines[SetMax(s) + 1])

\* C10's case: two header lines gave the same key different values, and a
\* line with an empty or discarded value may follow
C10_Witness ==
  /\ Parsed
  /\ \E k \in CanonKeys : \E i, j \in Storing(k) :
       /\ i < j
       /\ ValueOf(TheLines[i + 1]) # ValueOf(TheLines[j + 1])
       /\ last.scan.out[k] = ValueOf(TheLines[j + 1])

(***************************************************************************)
(* A session: the commands issued one after another, while the user and    *)
(* other programs write and remove files and open objects in between       *)
(***************************************************************************)

\* commands issued in one session
MaxCalls == 2

TxtPath == <<"/", "w", "/", "M", "1", ".", "t", "x", "t">>
TsPath == <<"/", "w", "/", "M", "1", ".", "t", "s">>
PdbPath == <<"/", "w", "/", "M", "1", ".", "p", "d", "b">>
TsFiles == {TxtPath, TsPath}
\* what a TS file may hold
TsTexts == {<<<<"S", "C", "O", "R", "E", ":", " ", "0", ".", "7", "2">>>>, <<<<"M", "O", "D", "E", "L", " ", "2">>, <<"A", "T", "O", "M", " ", "1", " ", "N">>>>}
PdbText == <<<<"A", "T", "O", "M", " ", "1", " ", "N">>>>
ObjectNames == {<<"M", "1">>, <<"M", "1", "2">>}
\* what the user passes for an object, a key or an identifier
Idents == {<<"M", "1">>, <<"M">>}
Patterns == {<<"/", "w", "/", "M", "1", ".", "t", "*">>, TsPath}
\* what the user types at the prompt of show_ts_info; NoneStr: input() raises
Typed == {NoneStr, <<"2">>, <<"9">>, <<"M", "1", "2">>, <<"M">>}

Init ==
  /\ files = (PdbPath :> PdbText)
  /\ objs = <<>>
  /\ cache = <<>>
  /\ stored_by = <<>>
  /\ last = [op |-> "start"]
  /\ calls = 0

\* somebody writes a TS file
WriteFile ==
  /\ calls < MaxCalls
  /\ \E p \in TsFiles, text \in TsTexts : files' = (p :> text) @@ files
  /\ last' = [op |-> "env"]
  /\ UNCHANGED <<objs, cache, stored_by, calls>>

\* somebody removes a TS file
RemoveFile ==
  /\ calls < MaxCalls
  /\ \E p \in TsFiles \cap DOMAIN files : files' = Removed(files, p)
  /\ last' = [op |-> "env"]
  /\ UNCHANGED <<objs, cache, stored_by, calls>>

\* the user opens an object by other means than load_model_with_ts
OpenObject ==
  /\ calls < MaxCalls
  /\ \E n \in ObjectNames : ~InList(objs, n) /\ objs' = Append(objs, n)
  /\ last' = [op |-> "env"]
  /\ UNCHANGED <<files, cache, stored_by, calls>>

RECURSIVE StoredByBatch(_, _, _)
\* who stored what, after the loop of parse_ts
StoredByBatch(results, i, sb) ==
  IF i > Len(results) THEN sb
  ELSE StoredByBatch(results, i + 1,
         (results[i].key :> [by |-> "parse_ts", ts |-> results[i].ts]) @@ sb)

parse_ts ==
  /\ calls < MaxCalls
  /\ \E ts_pattern \in Patterns, listing \in Listings(files) :
       \E r \in {ParseTsOutcome(files, listing, cache, ts_pattern)} :
          /\ cache' = r.cache
          /\ stored_by' = StoredByBatch(r.results, 1, stored_by)
          /\ last' = [op |-> "parse_ts", ts_pattern |-> ts_pattern,
                      matches |-> r.matches, results |-> r.results]
  /\ calls' = calls + 1
  /\ UNCHANGED <<files, objs>>

load_model_with_ts ==
  /\ calls < MaxCalls
  /\ \E pdb_or_obj \in Idents \cup {PdbPath}, ts_path \in TsFiles \cup {NoneStr},
        listing \in Listings(files) :
       \E r \in {LoadOutcome(files, listing, objs, cache, pdb_or_obj, ts_path)} :
          /\ objs' = r.objs
          /\ cache' = r.cache
          /\ stored_by' = IF r.object = NoneStr THEN stored_by
                          ELSE (r.object :> [by |-> "load_model_with_ts",
                                             ts |-> r.ts]) @@ stored_by
          /\ last' = [op |-> "load_model_with_ts", pdb_or_obj |-> pdb_or_obj,
                      ts_path |-> ts_path, object |-> r.object, ts |-> r.ts,
                      meta |-> r.meta, printed |-> r.printed,
                      was |-> CacheGet(cache, r.object),
                      was_by |-> IF r.object \in DOMAIN stored_by
                                 THEN stored_by[r.object].by ELSE "nobody"]
  /\ calls' = calls + 1
  /\ UNCHANGED files

attach_ts ==
  /\ calls < MaxCalls
  /\ \E ts_path \in TsFiles, obj_identifier \in Idents, gone \in BOOLEAN :
       \E r \in {AttachOutcome(files, objs, cache, ts_path, obj_identifier, gone)} :
          /\ files' = r.files
          /\ cache' = r.cache
          /\ stored_by' = IF r.ok
                          THEN (r.obj_name :> [by |-> "attach_ts",
                                               ts |-> ExpandUser(ts_path)])
                               @@ stored_by
                          ELSE stored_by
          /\ last' = [op |-> "attach_ts", ts_path |-> ts_path,
                      obj_identifier |-> obj_identifier, ok |-> r.ok,
                      why |-> r.why, obj_name |-> r.obj_name,
                      printed |-> r.printed]
  /\ calls' = calls + 1
  /\ UNCHANGED objs

show_ts_info ==
  /\ calls < MaxCalls
  /\ \E obj_or_key \in Idents \cup {NoneStr}, ts_path \in TsFiles \cup {NoneStr},
        listing \in Listings(files), gone \in BOOLEAN :
       \E typed \in (IF obj_or_key = NoneStr /\ Len(objs) > 1 THEN Typed
                     ELSE {NoneStr}) :
       \E r \in {ShowOutcome(files, listing, objs, cache, obj_or_key, ts_path,
                            typed, gone)} :
          /\ files' = r.files
          /\ cache' = r.cache
          /\ stored_by' = IF r.ok /\ r.route # "cached"
                          THEN (r.key :> [by |-> "show_ts_info",
                                          ts |-> r.chosen]) @@ stored_by
                          ELSE stored_by
          /\ last' = [op |-> "show_ts_info", obj_or_key |-> obj_or_key,
                      ts_path |-> ts_path, target |-> r.target, ok |-> r.ok,
                      route |-> r.route, key |-> r.key, chosen |-> r.chosen,
                      meta |-> r.meta, printed |-> r.printed]
  /\ calls' = calls + 1
  /\ UNCHANGED objs

Next ==
  \/ WriteFile
  \/ RemoveFile
  \/ OpenObject
  \/ parse_ts
  \/ load_model_with_ts
  \/ attach_ts
  \/ show_ts_info

Spec == Init /\ [][Next]_vars

(***************************************************************************)
(* Claims about the cache and the commands (checked under Spec)            *)
(***************************************************************************)

\* this step is a call of show_ts_info, of attach_ts, of load_model_with_ts
ShowStep == calls' = calls + 1 /\ last'.op = "show_ts_info"
AttachStep == calls' = calls + 1 /\ last'.op = "attach_ts"
LoadStep == calls' = calls + 1 /\ last'.op = "load_model_with_ts"
\* every entry of c2 but the one for key k is the entry of c1, and c2 has
\* no other entry
SameBut(c1, c2, k) ==
  /\ DOMAIN c1 \ {k} = DOMAIN c2 \ {k}
  /\ \A q \in DOMAIN c1 \ {k} : c2[q] = c1[q]
\* the record the default parse gives for the file at path p now
ParsedNow(fs, p) == _parse_ts_metadata(fs, p, DefaultMaxHeaderLines)

\* C1 as claimed: a show_ts_info for a key whose cache entry is stored as
\* absent, with no explicit resource, renders the "no TS metadata available"
\* notice at once: it chooses no file, parses nothing and leaves the cache
\* as it was.
C1_AbsenceShortCircuits ==
  [][(/\ ShowStep
      /\ ~TruthyStr(last'.ts_path)
      /\ last'.target \in DOMAIN cache
      /\ cache[last'.target] = NoneMeta)
     => /\ last'.printed = _pretty_print_trimmed(last'.target, NoneMeta)
        /\ last'.chosen = NoneStr
        /\ cache' = cache]_vars

\* C2: a show_ts_info with no explicit resource, for a key whose cache entry
\* was last stored by show_ts_info, renders that entry and leaves the cache
\* as it was, whatever has happened to the files since.
C2_NoAutoRefresh ==
  [][(/\ ShowStep
      /\ ~TruthyStr(last'.ts_path)
      /\ last'.target \in DOMAIN stored_by
      /\ stored_by[last'.target].by = "show_ts_info")
     => /\ last'.route = "cached"
        /\ last'.meta = cache[last'.target]
        /\ last'.printed
             = _pretty_print_trimmed(last'.target, cache[last'.target])
        /\ cache' = cache]_vars

\* C2's case: the entry show_ts_info stored was rendered again from the
\* cache although the file it was parsed from now parses to something else
C2_Witness ==
  /\ last.op = "show_ts_info"
  /\ last.route = "cached"
  /\ ~TruthyStr(last.ts_path)
  /\ last.target \in DOMAIN stored_by
  /\ stored_by[last.target].by = "show_ts_info"
  /\ ParsedNow(files, stored_by[last.target].ts) # cache[last.target]

\* C3: attach_ts fails when the path does not exist, when the identifier
\* matches no open object or several, and when the parse yields no record;
\* every failing attach_ts leaves the whole cache as it was.
C3_FailedAttachKeepsCache ==
  [][AttachStep =>
       /\ ~PathExists(files, ExpandUser(last'.ts_path)) => ~last'.ok
       /\ (/\ ~InList(objs, last'.obj_identifier)
           /\ Len(NamesContaining(objs, last'.obj_identifier)) # 1) => ~last'.ok
       /\ ParsedNow(files', ExpandUser(last'.ts_path)) = NoneMeta => ~last'.ok
       /\ ~last'.ok => cache' = cache]_vars

\* C3's case: attach_ts has failed for a path that does not exist, and the
\* cache still holds what it held
C3_Witness ==
  /\ last.op = "attach_ts"
  /\ ~last.ok
  /\ last.why = "TS file not found"
  /\ ~PathExists(files, ExpandUser(last.ts_path))
  /\ cache # <<>>

\* C4 as claimed: parse_ts returns one entry per matched file, and for every
\* returned entry e the cache holds cache[e.key] = e.meta.
C4_EveryEntryCached ==
  last.op = "parse_ts" =>
    /\ Len(last.results) = Len(last.matches)
    /\ \A i \in DOMAIN last.results :
         cache[last.results[i].key] = last.results[i].meta

\* C4 as amended: parse_ts returns one entry per matched file, in the order
\* of the matches, each with the key its basename gives and the record its
\* file parses to; for every key the cache holds the record of the last
\* returned entry with that key, which is every entry's own record only
\* when the keys of the batch are pairwise distinct.
C4_LastOfKeyCached ==
  last.op = "parse_ts" =>
    /\ Len(last.results) = Len(last.matches)
    /\ \A i \in DOMAIN last.results :
         /\ last.results[i].ts = last.matches[i]
         /\ last.results[i].key = SplitExt(Basename(last.matches[i]))[1]
         /\ last.results[i].meta = ParsedNow(files, last.matches[i])
         /\ cache[last.results[i].key] =
              last.results[SetMax({j \in DOMAIN last.results :
                                     last.results[j].key = last.results[i].key})].meta

\* C4's case: two files of one batch have the same key and different records
C4_Witness ==
  /\ last.op = "parse_ts"
  /\ \E i, j \in DOMAIN last.results :
       /\ i < j
       /\ last.results[i].key = last.results[j].key
       /\ last.results[i].meta # last.results[j].meta

\* C5: a show_ts_info that fails leaves the cache as it was; after it, a
\* show_ts_info with an explicit resource, or an attach_ts, for the same key
\* and a file that is there stores the record the file parses to.
C5_FailuresNotCached ==
  [][/\ (ShowStep /\ ~last'.ok) => cache' = cache
     /\ (/\ last.op = "show_ts_info" /\ ~last.ok /\ last.target # NoneStr
         /\ ShowStep
         /\ last'.target = last.target
         /\ TruthyStr(last'.ts_path)
         /\ IsFile(files', ExpandUser(last'.ts_path)))
        => /\ last'.ok
           /\ cache'[last.target] = ParsedNow(files', ExpandUser(last'.ts_path))
     /\ (/\ last.op = "show_ts_info" /\ ~last.ok /\ last.target # NoneStr
         /\ AttachStep
         /\ last'.obj_name = last.target
         /\ IsFile(files', ExpandUser(last'.ts_path)))
        => /\ last'.ok
           /\ cache'[last.target] = ParsedNow(files', ExpandUser(last'.ts_path))
    ]_vars

\* C5's case: the parse of a discovered file gave no record, show_ts_info
\* failed, and the cache, which is not empty, holds nothing for the key
C5_Witness ==
  /\ last.op = "show_ts_info"
  /\ ~last.ok
  /\ last.route = "parsing failed"
  /\ last.chosen # NoneStr
  /\ cache # <<>>
  /\ last.target \notin DOMAIN cache

\* C6: a show_ts_info that reaches auto-discovery changes no cache entry but
\* the one for the key of the call, and ends with that key as its key: the
\* object-name fallback never rebinds it.
C6_OnlyOriginalKey ==
  [][(/\ ShowStep
      /\ last'.target # NoneStr
      /\ ~TruthyStr(last'.ts_path)
      /\ last'.route # "cached")
     => /\ SameBut(cache, cache', last'.target)
        /\ last'.key = last'.target]_vars

\* C6's case: the key is part of an open object's name and of a file's name,
\* the file was chosen by auto-discovery and its record is stored under the
\* key of the call
C6_Witness ==
  /\ last.op = "show_ts_info"
  /\ last.route = "found"
  /\ ~InList(objs, last.target)
  /\ NamesContaining(objs, last.target) # <<>>
  /\ last.target \in DOMAIN cache
  /\ cache[last.target] = last.meta
  /\ \A n \in DOMAIN objs : objs[n] \notin DOMAIN cache

\* C11: a load_model_with_ts that resolves its first argument to an object
\* name leaves under that name the record parsed from the TS file it used, or
\* absent when it used none, whatever was cached before, and changes no other
\* entry; it uses the given TS file when that exists, and none at all for an
\* already-open object called without a TS path.
C11_LoadStoresUnconditionally ==
  [][(LoadStep /\ last'.object # NoneStr)
     => /\ last'.object \in DOMAIN cache'
        /\ cache'[last'.object] =
             (IF last'.ts = NoneStr THEN NoneMeta
              ELSE ParsedNow(files, last'.ts))
        /\ last'.meta = cache'[last'.object]
        /\ SameBut(cache, cache', last'.object)
        /\ last'.ts # NoneStr => PathExists(files, last'.ts)
        /\ (/\ TruthyStr(last'.ts_path)
            /\ PathExists(files, ExpandUser(last'.ts_path)))
           => last'.ts = ExpandUser(last'.ts_path)
        /\ (/\ ~PathExists(files, ExpandUser(last'.pdb_or_obj))
            /\ ~TruthyStr(last'.ts_path))
           => /\ last'.ts = NoneStr
              /\ cache'[last'.object] = NoneMeta]_vars

\* C11's case: load_model_with_ts, called for an already-open object without
\* a TS path, has replaced a record that attach_ts or show_ts_info stored
\* for the object by absent
C11_Witness ==
  /\ last.op = "load_model_with_ts"
  /\ ~TruthyStr(last.ts_path)
  /\ InList(objs, last.pdb_or_obj)
  /\ last.was # NoneMeta
  /\ last.was_by \in {"attach_ts", "show_ts_info"}
  /\ last.object \in DOMAIN cache
  /\ cache[last.object] = NoneMeta

====
